---- MODULE Spec2Model ----
(* Model of the assert_size attribute macro (src/src/lib.rs): the argument  *)
(* parser AssertSizeAttributeArgs::parse, the expansion assert_size, and    *)
(* the host compiler's evaluation of the emitted constant assertion.        *)
EXTENDS Integers, Sequences, FiniteSets, TLC

VARIABLES procs, attr, item, pc, args, input, out, build

vars == <<procs, attr, item, pc, args, input, out, build>>

(* ---------------- bounds ---------------- *)
\* width of usize in the model (the code's usize is the platform's)
UsizeBits == 5
\* longest digit string of an integer literal
MaxDigits == 2

RECURSIVE Pow(_, _)
Pow(b, e) == IF e = 0 THEN 1 ELSE b * Pow(b, e - 1)

UsizeMax == Pow(2, UsizeBits) - 1

(* ---------------- attribute tokens ---------------- *)
Radices == {10, 16, 8, 2}
DigitAlphabet == {0, 1, 2, 9, 15}
Suffixes == {"", "u8"}

RECURSIVE DigitSeqs(_, _)
DigitSeqs(r, n) ==
  IF n = 0 THEN {<<>>}
  ELSE LET shorter == DigitSeqs(r, n - 1)
       IN  shorter \cup {Append(s, d) : s \in {t \in shorter : Len(t) = n - 1},
                                        d \in {x \in DigitAlphabet : x < r}}

IntTok(r, ds, sfx) == [k |-> "int", radix |-> r, digits |-> ds, suffix |-> sfx]
OtherTok(kind) == [k |-> kind, radix |-> 0, digits |-> <<>>, suffix |-> ""]

IntLits == UNION {{IntTok(r, ds, sfx) : ds \in DigitSeqs(r, MaxDigits) \ {<<>>}, sfx \in Suffixes}
                  : r \in Radices}
NonIntToks == {OtherTok("ident"), OtherTok("str"), OtherTok("float")}
TrailToks == {OtherTok("comma"), IntTok(10, <<2>>, "")}
Minus == OtherTok("minus")

AttrInputs ==
  {<<>>} \cup {<<t>> : t \in IntLits \cup NonIntToks \cup {Minus}}
         \cup {<<Minus, l>> : l \in IntLits}
         \cup {<<l, t>> : l \in IntLits, t \in TrailToks}
         \cup {<<t, l>> : t \in NonIntToks, l \in {IntTok(10, <<2>>, "")}}

(* ---------------- numeric conversions ---------------- *)
RECURSIVE FromDigits(_, _)
\* value of a digit string in radix r, most significant digit first
FromDigits(ds, r) ==
  IF ds = <<>> THEN 0
  ELSE FromDigits(SubSeq(ds, 1, Len(ds) - 1), r) * r + ds[Len(ds)]

RECURSIVE ToBase10(_)
\* decimal digit string of v, no leading zeros
ToBase10(v) == IF v < 10 THEN <<v>> ELSE Append(ToBase10(v \div 10), v % 10)

(* ---------------- item tokens ---------------- *)
Tok(kind, val) == [k |-> kind, v |-> val]
Kw(w) == Tok("kw", w)
Ident(n) == Tok("ident", n)
Punct(c) == Tok("punct", c)
Brace(c) == Tok("brace", c)
Paren(c) == Tok("paren", c)
OuterAttr(a) == Tok("attr", a)
Semi == Punct(";")

TypeKeywords == {"struct", "enum", "union"}

VisParts == {<<>>, <<Kw("pub")>>}
GenericParts == {<<Punct("<"), Ident("T"), Punct(">")>>,
                 <<Punct("<"), Ident("T"), Punct(","), Ident("U"), Punct(">")>>}
StructBodies == {<<Brace("")>>, <<Brace("u8,u8")>>, <<Brace("[u8;11],u32")>>,
                 <<Paren("u8"), Semi>>, <<Semi>>}
EnumBodies == {<<Brace("")>>, <<Brace("Test,Awesome")>>,
               <<Brace("Variant1(u64),Variant2(u32)")>>}
UnionBodies == {<<Brace("u8,u32")>>, <<Brace("u64,i64")>>}

ItemInputs ==
  {a \o v \o <<Kw("struct"), Ident("Foo")>> \o b :
      a \in {<<>>, <<OuterAttr("repr(packed)")>>, <<OuterAttr("doc"), OuterAttr("derive(Clone)")>>},
      v \in VisParts, b \in StructBodies}
  \cup {v \o <<Kw("struct"), Ident(n)>> \o g \o <<Brace("T")>> :
      v \in VisParts, g \in GenericParts, n \in {"Foo", "Bar"}}
  \cup {a \o v \o <<Kw("enum"), Ident("Foo")>> \o b :
      a \in {<<>>, <<OuterAttr("derive(Clone)")>>}, v \in VisParts, b \in EnumBodies}
  \cup {<<OuterAttr("repr(u8)"), Kw("enum"), Ident("Foo")>> \o <<Brace("Test,Awesome")>>}
  \cup {v \o <<Kw("union"), Ident(n)>> \o b :
      v \in VisParts, b \in UnionBodies, n \in {"Foo", "Bar"}}
  \cup {v \o <<Kw("fn"), Ident("Foo"), Paren(""), Brace("")>> : v \in VisParts}
  \cup {v \o <<Kw(w), Ident("Foo"), Brace("")>> : v \in VisParts, w \in {"mod", "trait"}}

(* ---------------- diagnostics and results ---------------- *)
Diag(sp, m) == [span |-> sp, msg |-> m]
NoDiag == Diag("", "")
NoLit == [neg |-> FALSE, radix |-> 10, digits |-> <<>>, suffix |-> ""]

(* ---------------- syn: LitInt ---------------- *)
\* <LitInt as Parse>::parse: one integer literal, or '-' followed by one
LitInt_parse(ts) ==
  IF ts # <<>> /\ ts[1].k = "int"
    THEN [ok |-> TRUE, rest |-> Tail(ts), err |-> "",
          lit |-> [neg |-> FALSE, radix |-> ts[1].radix, digits |-> ts[1].digits,
                   suffix |-> ts[1].suffix]]
  ELSE IF Len(ts) >= 2 /\ ts[1].k = "minus" /\ ts[2].k = "int"
    THEN [ok |-> TRUE, rest |-> Tail(Tail(ts)), err |-> "",
          lit |-> [neg |-> TRUE, radix |-> ts[2].radix, digits |-> ts[2].digits,
                   suffix |-> ts[2].suffix]]
  ELSE [ok |-> FALSE, rest |-> ts, err |-> "expected integer literal", lit |-> NoLit]

base10_digits_as_written(lit) == [neg |-> lit.neg, digits |-> lit.digits]

\* LitInt::base10_digits: the literal's value rewritten in decimal, whatever
\* radix it was written in; the sign is kept, the suffix is dropped
base10_digits(lit) ==
  [neg |-> lit.neg, digits |-> ToBase10(FromDigits(lit.digits, lit.radix))]

base10_parse_wrapping(lit) ==
  LET bd == base10_digits(lit)
  IN  IF bd.neg THEN [ok |-> FALSE, value |-> 0, err |-> "invalid digit found in string"]
      ELSE [ok |-> TRUE, value |-> FromDigits(bd.digits, 10) % (UsizeMax + 1), err |-> ""]

\* LitInt::base10_parse::<usize>: usize::from_str on the decimal digits
base10_parse(lit) ==
  LET bd == base10_digits(lit)
      v  == FromDigits(bd.digits, 10)
  IN  IF bd.neg THEN [ok |-> FALSE, value |-> 0, err |-> "invalid digit found in string"]
      ELSE IF v > UsizeMax
        THEN [ok |-> FALSE, value |-> 0, err |-> "number too large to fit in target type"]
      ELSE [ok |-> TRUE, value |-> v, err |-> ""]

(* ---------------- AssertSizeAttributeArgs ---------------- *)
NoArgs == [st |-> "none", desired_size_in_bytes |-> 0, diag |-> NoDiag]
ArgsOk(v) == [st |-> "ok", desired_size_in_bytes |-> v, diag |-> NoDiag]
ArgsErr(m) == [st |-> "err", desired_size_in_bytes |-> 0, diag |-> Diag("attr", m)]

\* impl Parse for AssertSizeAttributeArgs, with the tokens it leaves unread
AssertSizeAttributeArgs_parse(ts) ==
  LET l == LitInt_parse(ts)
  IN  IF ~l.ok THEN [res |-> ArgsErr(l.err), rest |-> l.rest]
      ELSE LET value == base10_parse(l.lit)
           IN  IF ~value.ok THEN [res |-> ArgsErr(value.err), rest |-> l.rest]
               ELSE [res |-> ArgsOk(value.value), rest |-> l.rest]

\* parse_macro_input!(attr as AssertSizeAttributeArgs): the parser must
\* consume the whole stream
parse_attr(ts) ==
  LET r == AssertSizeAttributeArgs_parse(ts)
  IN  IF r.res.st = "ok" /\ r.rest # <<>> THEN ArgsErr("unexpected token") ELSE r.res

(* ---------------- syn: DeriveInput ---------------- *)
RECURSIVE AttrPrefixLen(_)
AttrPrefixLen(ts) ==
  IF ts # <<>> /\ ts[1].k = "attr" THEN 1 + AttrPrefixLen(Tail(ts)) ELSE 0

RECURSIVE GenericsLen(_)
\* number of tokens of a generic parameter list starting at ts[1], 0 if none
GenericsLen(ts) ==
  IF ts = <<>> THEN 0
  ELSE IF ts[1] = Punct(">") THEN 1
  ELSE 1 + GenericsLen(Tail(ts))

Drop(ts, n) == SubSeq(ts, n + 1, Len(ts))
Take(ts, n) == SubSeq(ts, 1, n)

NoInput == [st |-> "none", attrs |-> <<>>, vis |-> <<>>, kw |-> <<>>, ident |-> <<>>,
            generics |-> <<>>, data |-> <<>>, diag |-> NoDiag]
InputErr(m) == [NoInput EXCEPT !.st = "err", !.diag = Diag("item", m)]

\* the shapes of Data syn accepts after the generics, by keyword
DataOk(w, d) ==
  \/ /\ w = "struct"
     /\ \/ Len(d) = 1 /\ d[1].k = "brace"
        \/ Len(d) = 2 /\ d[1].k = "paren" /\ d[2] = Semi
        \/ d = <<Semi>>
  \/ /\ w \in {"enum", "union"}
     /\ Len(d) = 1 /\ d[1].k = "brace"

DeriveInput_parse_any_item(ts) ==
  LET na == AttrPrefixLen(ts)
      t1 == Drop(ts, na)
      nv == IF t1 # <<>> /\ t1[1] = Kw("pub") THEN 1 ELSE 0
      t2 == Drop(t1, nv)
      t3 == Drop(t2, 2)
      ng == IF t3 # <<>> /\ t3[1] = Punct("<") THEN GenericsLen(t3) ELSE 0
  IN  [st |-> "ok", attrs |-> Take(ts, na), vis |-> Take(t1, nv), kw |-> Take(t2, 1),
       ident |-> SubSeq(t2, 2, 2), generics |-> Take(t3, ng), data |-> Drop(t3, ng),
       diag |-> NoDiag]

\* <DeriveInput as Parse>::parse: outer attributes, visibility, then one of
\* struct / enum / union, the name, the generics and the body
DeriveInput_parse(ts) ==
  LET na == AttrPrefixLen(ts)
      t1 == Drop(ts, na)
      nv == IF t1 # <<>> /\ t1[1] = Kw("pub") THEN 1 ELSE 0
      t2 == Drop(t1, nv)
      t3 == Drop(t2, 2)
      ng == IF t3 # <<>> /\ t3[1] = Punct("<") THEN GenericsLen(t3) ELSE 0
      d  == Drop(t3, ng)
  IN  IF t2 = <<>> \/ t2[1].k # "kw" \/ t2[1].v \notin TypeKeywords
        THEN InputErr("expected one of: struct, enum, union")
      ELSE IF Len(t2) < 2 \/ t2[2].k # "ident" THEN InputErr("expected identifier")
      ELSE IF ~DataOk(t2[1].v, d) THEN InputErr("unexpected token")
      ELSE [st |-> "ok", attrs |-> Take(ts, na), vis |-> Take(t1, nv), kw |-> Take(t2, 1),
            ident |-> SubSeq(t2, 2, 2), generics |-> Take(t3, ng), data |-> d,
            diag |-> NoDiag]

DeriveInput_to_tokens_no_attrs(d) ==
  d.vis \o d.kw \o d.ident \o d.generics \o d.data

\* <DeriveInput as ToTokens>::to_tokens
DeriveInput_to_tokens(d) ==
  d.attrs \o d.vis \o d.kw \o d.ident \o d.generics \o d.data

(* ---------------- quote!: the macro's output ---------------- *)
NoExpected == [digits |-> <<>>, suffix |-> ""]
CompileErrorPart(d) ==
  [k |-> "compile_error", diag |-> d, expected |-> NoExpected, ty |-> <<>>, tokens |-> <<>>]
ConstAssertPart(e, t) ==
  [k |-> "const_assert", diag |-> NoDiag, expected |-> e, ty |-> t, tokens |-> <<>>]
DeclPart(ts) ==
  [k |-> "decl", diag |-> NoDiag, expected |-> NoExpected, ty |-> <<>>, tokens |-> ts]

quote_usize_narrow(v) == [digits |-> ToBase10(v % Pow(2, UsizeBits - 1)), suffix |-> "u8"]

\* <usize as ToTokens>::to_tokens: Literal::usize_suffixed(v)
quote_usize(v) == [digits |-> ToBase10(v), suffix |-> "usize"]

generated_test_code_decl_only(a, inp) ==
  <<DeclPart(DeriveInput_to_tokens(inp))>>

generated_test_code_decl_first(a, inp) ==
  <<DeclPart(DeriveInput_to_tokens(inp)),
    ConstAssertPart(quote_usize(a.desired_size_in_bytes), inp.ident)>>

generated_test_code_registry(a, inp) ==
  LET seen == Cardinality({j \in procs : pc[j] \in {"returned", "built"}})
  IN  <<ConstAssertPart(quote_usize((a.desired_size_in_bytes + seen) % (UsizeMax + 1)),
                        inp.ident),
        DeclPart(DeriveInput_to_tokens(inp))>>

\* the quote! block of assert_size: the constant assertion, whose type
\* argument is type_name = &input.ident, then #input
generated_test_code(a, inp) ==
  <<ConstAssertPart(quote_usize(a.desired_size_in_bytes), inp.ident),
    DeclPart(DeriveInput_to_tokens(inp))>>

(* ---------------- the host compiler ---------------- *)
HasAttr(d, a) == \E n \in 1..Len(d.attrs) : d.attrs[n] = OuterAttr(a)

\* core::mem::size_of of a non-generic declaration, as the platform lays it out
HostSizeOf(d) ==
  LET body == d.data[1]
  IN  CASE body = Brace("u8,u8") -> 2
        [] body = Brace("[u8;11],u32") -> IF HasAttr(d, "repr(packed)") THEN 15 ELSE 16
        [] body = Paren("u8") -> 1
        [] body = Brace("Test,Awesome") -> 1
        [] body = Brace("Variant1(u64),Variant2(u32)") -> 16
        [] body = Brace("u8,u32") -> 4
        [] body = Brace("u64,i64") -> 8
        [] OTHER -> 0

Parts(o, kind) == {n \in 1..Len(o) : o[n].k = kind}

\* does the constant assertion p hold against the declarations emitted in o
AssertionHolds(o, p) ==
  \E n \in Parts(o, "decl") :
    LET d == DeriveInput_parse(o[n].tokens)
    IN  /\ d.st = "ok"
        /\ p.ty = d.ident
        /\ d.generics = <<>>
        /\ FromDigits(p.expected.digits, 10) = HostSizeOf(d)

\* the build of the crate holding the macro's output: a compile_error!
\* fails it, and so does a constant assertion that does not evaluate to true
rustc_build(o) ==
  IF Parts(o, "compile_error") # {} THEN "failed"
  ELSE IF \A n \in Parts(o, "const_assert") : AssertionHolds(o, o[n]) THEN "ok"
  ELSE "failed"

(* ---------------- assert_size, step by step ---------------- *)
ParseAttrFallThrough(i) ==
  /\ pc[i] = "attr"
  /\ LET a == parse_attr(attr[i])
     IN  /\ args' = [args EXCEPT ![i] = a]
         /\ out' = [out EXCEPT ![i] = IF a.st = "err" THEN <<CompileErrorPart(a.diag)>> ELSE @]
         /\ pc' = [pc EXCEPT ![i] = "item"]
  /\ UNCHANGED <<procs, attr, item, input, build>>

\* let args = parse_macro_input!(attr as AssertSizeAttributeArgs);
ParseAttr(i) ==
  /\ pc[i] = "attr"
  /\ LET a == parse_attr(attr[i])
     IN  /\ args' = [args EXCEPT ![i] = a]
         /\ out' = [out EXCEPT ![i] = IF a.st = "err" THEN <<CompileErrorPart(a.diag)>> ELSE @]
         /\ pc' = [pc EXCEPT ![i] = IF a.st = "err" THEN "returned" ELSE "item"]
  /\ UNCHANGED <<procs, attr, item, input, build>>

ParseItemKeepDecl(i) ==
  /\ pc[i] = "item"
  /\ LET d == DeriveInput_parse(item[i])
     IN  /\ input' = [input EXCEPT ![i] = d]
         /\ out' = [out EXCEPT ![i] =
                      IF d.st = "err" THEN <<CompileErrorPart(d.diag), DeclPart(item[i])>> ELSE @]
         /\ pc' = [pc EXCEPT ![i] = IF d.st = "err" THEN "returned" ELSE "quote"]
  /\ UNCHANGED <<procs, attr, item, args, build>>

\* let input = parse_macro_input!(item as DeriveInput);
ParseItem(i) ==
  /\ pc[i] = "item"
  /\ LET d == DeriveInput_parse(item[i])
     IN  /\ input' = [input EXCEPT ![i] = d]
         /\ out' = [out EXCEPT ![i] = IF d.st = "err" THEN <<CompileErrorPart(d.diag)>> ELSE @]
         /\ pc' = [pc EXCEPT ![i] = IF d.st = "err" THEN "returned" ELSE "quote"]
  /\ UNCHANGED <<procs, attr, item, args, build>>

\* generated_test_code.into()
Quote(i) ==
  /\ pc[i] = "quote"
  /\ out' = [out EXCEPT ![i] = generated_test_code(args[i], input[i])]
  /\ pc' = [pc EXCEPT ![i] = "returned"]
  /\ UNCHANGED <<procs, attr, item, args, input, build>>

\* the compiler builds the expansion
Build(i) ==
  /\ pc[i] = "returned"
  /\ build' = [build EXCEPT ![i] = rustc_build(out[i])]
  /\ pc' = [pc EXCEPT ![i] = "built"]
  /\ UNCHANGED <<procs, attr, item, args, input, out>>

InitOver(P, A, I) ==
  /\ procs = P
  /\ attr \in [P -> A]
  /\ item \in [P -> I]
  /\ pc = [i \in P |-> "attr"]
  /\ args = [i \in P |-> NoArgs]
  /\ input = [i \in P |-> NoInput]
  /\ out = [i \in P |-> <<>>]
  /\ build = [i \in P |-> "none"]

\* one invocation, over every attribute argument and item
Init == InitOver({1}, AttrInputs, ItemInputs)

SampleAttrs == {<<>>, <<IntTok(10, <<2>>, "")>>, <<IntTok(10, <<1>>, "")>>,
                <<IntTok(16, <<1, 0>>, "")>>, <<OtherTok("ident")>>}
SampleItems == {<<Kw("struct"), Ident("Foo"), Brace("u8,u8")>>,
                <<Kw("enum"), Ident("Foo"), Brace("Variant1(u64),Variant2(u32)")>>,
                <<Kw("struct"), Ident("Foo"), Punct("<"), Ident("T"), Punct(">"), Brace("T")>>,
                <<Kw("fn"), Ident("Foo"), Paren(""), Brace("")>>}

\* two invocations expanded by the compiler in any interleaving
InitPair == InitOver({1, 2}, SampleAttrs, SampleItems)

Next ==
  \/ \E i \in procs : ParseAttr(i)
  \/ \E i \in procs : ParseItem(i)
  \/ \E i \in procs : Quote(i)
  \/ \E i \in procs : Build(i)

Spec == Init /\ [][Next]_vars
SpecPair == InitPair /\ [][Next]_vars

(* ---------------- what the claims speak about ---------------- *)
Returned(i) == pc[i] \in {"returned", "built"}
Built(i) == pc[i] = "built"

\* the attribute argument is exactly one integer literal token
SingleIntLit(ts) == Len(ts) = 1 /\ ts[1].k = "int"
\* the number a literal token denotes
LitValue(t) == FromDigits(t.digits, t.radix)

\* the item is a struct, enum or union declaration
IsTypeDecl(ts) == \E n \in 1..Len(ts) : ts[n].k = "kw" /\ ts[n].v \in TypeKeywords
IsGeneric(ts) == \E n \in 1..Len(ts) : ts[n] = Punct("<")
KwPos(ts) == CHOOSE n \in 1..Len(ts) : ts[n].k = "kw" /\ ts[n].v # "pub"
DeclName(ts) == ts[KwPos(ts) + 1]
\* the generic parameter list as written, from "<" to ">"
DeclGenerics(ts) ==
  IF IsGeneric(ts)
    THEN LET first == CHOOSE n \in 1..Len(ts) : ts[n] = Punct("<")
             last  == CHOOSE n \in 1..Len(ts) : ts[n] = Punct(">")
         IN  SubSeq(ts, first, last)
  ELSE <<>>

\* the attribute argument is malformed in one of the ways the parser rejects
BadAttr(ts) ==
  \/ ts = <<>>
  \/ Len(ts) > 1
  \/ Len(ts) = 1 /\ ts[1].k # "int"
  \/ SingleIntLit(ts) /\ LitValue(ts[1]) > UsizeMax

ArgDiagnostic(i) ==
  /\ Len(out[i]) = 1 /\ out[i][1].k = "compile_error" /\ out[i][1].diag.span = "attr"
ItemDiagnostic(i) ==
  /\ Len(out[i]) = 1 /\ out[i][1].k = "compile_error" /\ out[i][1].diag.span = "item"
EmittedCode(i) ==
  /\ Parts(out[i], "compile_error") = {}
  /\ Parts(out[i], "const_assert") # {}
  /\ Parts(out[i], "decl") # {}
\* the expansion went through both parses and returned the quoted code
Expanded(i) == Returned(i) /\ args[i].st = "ok" /\ input[i].st = "ok"

\* C1: for a non-generic struct, enum or union of host size S and a valid
\* argument N, the build succeeds exactly when N = S
C1_BuildOkIffSizeMatches ==
  \A i \in procs :
    (Built(i) /\ SingleIntLit(attr[i]) /\ LitValue(attr[i][1]) <= UsizeMax
       /\ IsTypeDecl(item[i]) /\ ~IsGeneric(item[i]))
    => (build[i] = "ok" <=> LitValue(attr[i][1]) = HostSizeOf(DeriveInput_parse(item[i])))

C1_Witness ==
  \E i \in procs :
    /\ Built(i) /\ build[i] = "ok" /\ SingleIntLit(attr[i])
    /\ LitValue(attr[i][1]) = 15 /\ HasAttr(input[i], "repr(packed)")

\* C2: a successful expansion is the constant assertion on the annotated
\* type followed by the declaration, and the declaration equals the input
C2_OutputIsAssertionThenDeclaration ==
  \A i \in procs :
    Expanded(i) =>
      /\ Len(out[i]) = 2
      /\ out[i][1].k = "const_assert"
      /\ out[i][1].ty[1] = DeclName(item[i])
      /\ FromDigits(out[i][1].expected.digits, 10) = args[i].desired_size_in_bytes
      /\ out[i][2].k = "decl"
      /\ out[i][2].tokens = item[i]

C2_Witness ==
  \E i \in procs :
    /\ Expanded(i) /\ Len(item[i]) >= 6 /\ item[i][1].k = "attr" /\ item[i][3] = Kw("pub")

\* C3: the asserted type is the declaration's name with its generic
\* parameter list reapplied as written, the bare name when there is none
C3_TypeRefReappliesGenerics ==
  \A i \in procs :
    Expanded(i) => out[i][1].ty = <<DeclName(item[i])>> \o DeclGenerics(item[i])

\* C4: an empty argument, more than one token, a non-integer token, a
\* value above usize::MAX and a negative literal are all rejected with a
\* diagnostic on the attribute
C4_MalformedArgumentRejected ==
  \A i \in procs :
    (pc[i] # "attr" /\ BadAttr(attr[i]))
    => (args[i].st = "err" /\ Returned(i) /\ ArgDiagnostic(i))

C4_Witness ==
  \E i \in procs :
    /\ Returned(i) /\ SingleIntLit(attr[i]) /\ LitValue(attr[i][1]) > UsizeMax
    /\ attr[i][1].radix = 10 /\ ArgDiagnostic(i)

\* C5 as claimed: a single hexadecimal, octal or binary literal is rejected
C5_NonDecimalRejected ==
  \A i \in procs :
    (pc[i] # "attr" /\ SingleIntLit(attr[i]) /\ attr[i][1].radix # 10)
    => args[i].st = "err"

\* C5 amended: a single hexadecimal, octal or binary literal is accepted
\* with its numeric value when that fits usize, and rejected only when not
C5_NonDecimalAcceptedByValue ==
  \A i \in procs :
    (pc[i] # "attr" /\ SingleIntLit(attr[i]) /\ attr[i][1].radix # 10)
    => IF LitValue(attr[i][1]) <= UsizeMax
         THEN args[i].st = "ok" /\ args[i].desired_size_in_bytes = LitValue(attr[i][1])
         ELSE args[i].st = "err" /\ ArgDiagnostic(i)

C5_Witness ==
  \E i \in procs :
    /\ attr[i] = <<IntTok(16, <<1, 0>>, "")>>
    /\ Built(i) /\ build[i] = "ok" /\ args[i].desired_size_in_bytes = 16

\* C6: one base-10 literal of value v <= usize::MAX parses to v, and v is
\* the left operand of the emitted assertion
C6_DecimalValuePreserved ==
  \A i \in procs :
    (pc[i] # "attr" /\ SingleIntLit(attr[i]) /\ attr[i][1].radix = 10
       /\ LitValue(attr[i][1]) <= UsizeMax)
    => /\ args[i].st = "ok"
       /\ args[i].desired_size_in_bytes = LitValue(attr[i][1])
       /\ Expanded(i) =>
            /\ out[i][1].k = "const_assert"
            /\ FromDigits(out[i][1].expected.digits, 10) = LitValue(attr[i][1])
            /\ out[i][1].expected.suffix = "usize"

C6_Witness ==
  \E i \in procs :
    /\ Expanded(i) /\ SingleIntLit(attr[i]) /\ attr[i][1].radix = 10
    /\ LitValue(attr[i][1]) > Pow(2, UsizeBits - 1)
    /\ FromDigits(out[i][1].expected.digits, 10) = LitValue(attr[i][1])

\* C7: on an item that is not a struct, enum or union, a valid argument
\* gives a diagnostic on the item, no assertion, and a failed build
C7_NonTypeItemRejected ==
  \A i \in procs :
    (~IsTypeDecl(item[i]) /\ args[i].st = "ok" /\ pc[i] \notin {"attr", "item"})
    => /\ ItemDiagnostic(i)
       /\ Parts(out[i], "const_assert") = {}
       /\ Built(i) => build[i] = "failed"

C7_Witness ==
  \E i \in procs :
    /\ Built(i) /\ args[i].st = "ok" /\ ItemDiagnostic(i)
    /\ item[i][KwPos(item[i])] = Kw("trait")

\* C8: two invocations given the same argument and item end with the same
\* output and the same build result, whatever ran before or between them
C8_OutcomeDependsOnOwnInputsOnly ==
  \A i, j \in procs :
    (attr[i] = attr[j] /\ item[i] = item[j])
    => /\ (Returned(i) /\ Returned(j)) => out[i] = out[j]
       /\ (Built(i) /\ Built(j)) => build[i] = build[j]

C8_Witness ==
  \E i, j \in procs :
    /\ i # j /\ attr[i] = attr[j] /\ item[i] = item[j]
    /\ Built(i) /\ pc[j] = "returned" /\ EmittedCode(i) /\ EmittedCode(j)

\* C9: the item is parsed only after the argument parsed, code is emitted
\* only after both parsed, a malformed argument wins over a malformed item,
\* and a finished invocation has exactly one of the three outcomes
C9_LinearExpansion ==
  \A i \in procs :
    /\ input[i].st # "none" => args[i].st = "ok"
    /\ pc[i] = "item" => args[i].st = "ok"
    /\ Parts(out[i], "const_assert") # {} => (args[i].st = "ok" /\ input[i].st = "ok")
    /\ Returned(i) =>
         \/ ArgDiagnostic(i) /\ ~ItemDiagnostic(i) /\ ~EmittedCode(i)
         \/ ~ArgDiagnostic(i) /\ ItemDiagnostic(i) /\ ~EmittedCode(i)
         \/ ~ArgDiagnostic(i) /\ ~ItemDiagnostic(i) /\ EmittedCode(i)
    /\ (Returned(i) /\ BadAttr(attr[i]) /\ ~IsTypeDecl(item[i])) => ArgDiagnostic(i)

C9_Witness ==
  \E i \in procs :
    /\ Returned(i) /\ BadAttr(attr[i]) /\ ~IsTypeDecl(item[i])
    /\ ArgDiagnostic(i) /\ input[i].st = "none"

\* C10: when either parse fails the output is the diagnostic alone, without
\* the declaration and without an assertion, and the build fails
C10_ErrorOutputIsDiagnosticOnly ==
  \A i \in procs :
    (Returned(i) /\ (args[i].st = "err" \/ input[i].st = "err"))
    => /\ Len(out[i]) = 1
       /\ out[i][1].k = "compile_error"
       /\ Parts(out[i], "decl") = {}
       /\ Parts(out[i], "const_assert") = {}
       /\ Built(i) => build[i] = "failed"

C10_Witness ==
  \E i \in procs :
    /\ Built(i) /\ args[i].st = "ok" /\ input[i].st = "err"
    /\ Len(out[i]) = 1 /\ build[i] = "failed"
====
